---- MODULE Spec2Model ----
(***************************************************************************)
(* Model of aacgmv2/wrapper.py: the validation, method-decoding,           *)
(* broadcasting and error-handling layer in front of the native AACGM-v2   *)
(* engine (c_aacgmv2).                                                      *)
(*                                                                         *)
(* Numbers.  Latitudes and longitudes are fixed-point, in hundredths of a  *)
(* degree (90.1 degrees is 9010); heights are in km.  NaN is a sentinel    *)
(* value: every ordered comparison with it is FALSE, as for IEEE floats.   *)
(* Strings are sequences of one-character strings, so that upper(),        *)
(* replace() and split() are computed and not assumed.                     *)
(* Arrays are records [shape, data]: shape is the numpy shape tuple (<<>>  *)
(* for a 0-d array made from a scalar) and data the elements in C order.   *)
(***************************************************************************)
EXTENDS Integers, Sequences, FiniteSets, TLC

VARIABLES pc, call, ret, log, passed, epoch

vars == <<pc, call, ret, log, passed, epoch>>

(***************************************************************************)
(* Bounds of the model.                                                    *)
(***************************************************************************)
MaxLen == 2
MaxTokens == 2

(***************************************************************************)
(* Constants of the program and of the native engine.                      *)
(***************************************************************************)
NaN == 999999

G2A == 0
A2G == 1
TRACE == 2
ALLOWTRACE == 4
BADIDEA == 8
GEOCENTRIC == 16

high_alt_coeff == 2000
high_alt_trace == 6378

(***************************************************************************)
(* Float and integer helpers.                                              *)
(***************************************************************************)
IsNaN(x) == x = NaN

Gt(a, b) == ~IsNaN(a) /\ ~IsNaN(b) /\ a > b

Lt(a, b) == ~IsNaN(a) /\ ~IsNaN(b) /\ a < b

Abs(x) == IF IsNaN(x) THEN NaN ELSE IF x < 0 THEN -x ELSE x

RECURSIVE BitAnd(_, _)
BitAnd(a, b) ==
    IF a = 0 \/ b = 0 THEN 0
    ELSE (IF a % 2 = 1 /\ b % 2 = 1 THEN 1 ELSE 0) + 2 * BitAnd(a \div 2, b \div 2)

RECURSIVE BitOr(_, _)
BitOr(a, b) ==
    IF a = 0 THEN b
    ELSE IF b = 0 THEN a
    ELSE (IF a % 2 = 1 \/ b % 2 = 1 THEN 1 ELSE 0) + 2 * BitOr(a \div 2, b \div 2)

RECURSIVE SumSeq(_)
SumSeq(s) == IF s = <<>> THEN 0 ELSE Head(s) + SumSeq(Tail(s))

Range(s) == {s[i] : i \in 1..Len(s)}

(***************************************************************************)
(* Strings.                                                                *)
(***************************************************************************)
LowerLetters ==
    <<"a", "b", "c", "d", "e", "f", "g", "h", "i", "j", "k", "l", "m",
      "n", "o", "p", "q", "r", "s", "t", "u", "v", "w", "x", "y", "z">>

UpperLetters ==
    <<"A", "B", "C", "D", "E", "F", "G", "H", "I", "J", "K", "L", "M",
      "N", "O", "P", "Q", "R", "S", "T", "U", "V", "W", "X", "Y", "Z">>

LowerIndex == [c \in Range(LowerLetters) |-> CHOOSE i \in 1..26 : LowerLetters[i] = c]

UpperChar(c) == IF c \in DOMAIN LowerIndex THEN UpperLetters[LowerIndex[c]] ELSE c

\* str.upper()
str_upper(s) == [i \in 1..Len(s) |-> UpperChar(s[i])]

\* str.replace(" ", "")
str_remove_spaces(s) == SelectSeq(s, LAMBDA c : c # " ")

\* str.split("|"): the pieces between pipes, empty pieces included
RECURSIVE SplitFrom(_, _, _)
SplitFrom(s, i, cur) ==
    IF i > Len(s) THEN <<cur>>
    ELSE IF s[i] = "|" THEN <<cur>> \o SplitFrom(s, i + 1, <<>>)
    ELSE SplitFrom(s, i + 1, Append(cur, s[i]))

str_split(s) == SplitFrom(s, 1, <<>>)

(***************************************************************************)
(* convert_str_to_bit                                                      *)
(***************************************************************************)
KeyG2A == <<"G", "2", "A">>
KeyA2G == <<"A", "2", "G">>
KeyTRACE == <<"T", "R", "A", "C", "E">>
KeyBADIDEA == <<"B", "A", "D", "I", "D", "E", "A">>
KeyGEOCENTRIC == <<"G", "E", "O", "C", "E", "N", "T", "R", "I", "C">>
KeyALLOWTRACE == <<"A", "L", "L", "O", "W", "T", "R", "A", "C", "E">>

convert_code_keys ==
    {KeyG2A, KeyA2G, KeyTRACE, KeyBADIDEA, KeyGEOCENTRIC, KeyALLOWTRACE}

convert_code(k) ==
    CASE k = KeyG2A -> G2A
      [] k = KeyA2G -> A2G
      [] k = KeyTRACE -> TRACE
      [] k = KeyBADIDEA -> BADIDEA
      [] k = KeyGEOCENTRIC -> GEOCENTRIC
      [] k = KeyALLOWTRACE -> ALLOWTRACE

\* bit_code = sum([convert_code[k] for k in method_codes if k in keys])
sum_codes(method_codes) ==
    LET valid == SelectSeq(method_codes, LAMBDA k : k \in convert_code_keys)
    IN SumSeq([i \in 1..Len(valid) |-> convert_code(valid[i])])

convert_str_to_bit(method_code) ==
    LET method_codes == str_split(str_remove_spaces(str_upper(method_code)))
    IN sum_codes(method_codes)

(***************************************************************************)
(* test_time.  A time input is a datetime (day, second of day), a date     *)
(* (day only) or something else.                                           *)
(***************************************************************************)
DateTime(d, s) == [kind |-> "datetime", day |-> d, sec |-> s]
Date(d) == [kind |-> "date", day |-> d, sec |-> 0]
NotATime == [kind |-> "other", day |-> 0, sec |-> 0]

\* FALSE: test_time raises ValueError
test_time_ok(dtime) == dtime.kind \in {"date", "datetime"}

\* the datetime test_time returns; a date becomes midnight of that date
test_time(dtime) ==
    IF dtime.kind = "date" THEN DateTime(dtime.day, 0) ELSE dtime

(***************************************************************************)
(* test_height                                                             *)
(***************************************************************************)
test_height_ceiling_only(height, bit_code) ==
    ~(Gt(height, high_alt_trace) /\ BitAnd(bit_code, BADIDEA) = 0)

test_height_trace_lifts(height, bit_code) ==
    ~(Gt(height, high_alt_coeff)
      /\ BitAnd(bit_code, BitOr(TRACE, BitOr(ALLOWTRACE, BADIDEA))) = 0)

test_height(height, bit_code) ==
    IF Gt(height, high_alt_coeff)
       /\ BitAnd(bit_code, BitOr(TRACE, BitOr(ALLOWTRACE, BADIDEA))) = 0
    THEN FALSE
    ELSE IF Gt(height, high_alt_trace) /\ BitAnd(bit_code, BADIDEA) = 0
    THEN FALSE
    ELSE TRUE

\* the advisory logged for a sub-surface altitude
test_height_warns(height) == Lt(height, 0)

(***************************************************************************)
(* Outcomes of a call, and the record of the engine primitives it invoked. *)
(***************************************************************************)
Return(v) == [kind |-> "return", err |-> "", msg |-> "", val |-> v]
Raise(e, m) == [kind |-> "raise", err |-> e, msg |-> m, val |-> <<>>]
NoRet == [kind |-> "none", err |-> "", msg |-> "", val |-> <<>>]

NoEpoch == [kind |-> "none", day |-> 0, sec |-> 0]

LogSetDatetime(t, okay) ==
    [prim |-> "set_datetime", t |-> t, pt |-> <<>>, code |-> 0,
     epoch |-> NoEpoch, ok |-> okay]

LogConvert(lat, lon, h, code, ep, okay) ==
    [prim |-> "convert", t |-> NoEpoch, pt |-> <<lat, lon, h>>, code |-> code,
     epoch |-> ep, ok |-> okay]

\* aacgmv2.logger.warning of test_height, recorded for a direct call
LogWarning(height) ==
    [prim |-> "logger.warning", t |-> NoEpoch, pt |-> <<height>>, code |-> 0,
     epoch |-> NoEpoch, ok |-> TRUE]

LogMlt(t, mlon) ==
    [prim |-> "mlt_convert", t |-> t, pt |-> <<mlon>>, code |-> 0,
     epoch |-> t, ok |-> TRUE]

(***************************************************************************)
(* The native engine.  The environment decides, per call of the wrapper,   *)
(* whether set_datetime accepts the calendar values (eng.setdt) and, for   *)
(* the i-th point handed to convert, whether the primitive returns a       *)
(* result ("ok"), returns not-a-number ("nan") or throws ("fail").  A      *)
(* successful conversion echoes its inputs.                                *)
(***************************************************************************)
Engine(s, c) == [setdt |-> s, conv |-> c]

c_convert(lat, lon, h, code, how) ==
    IF how = "nan" THEN <<NaN, NaN, NaN>> ELSE <<lat, lon, h>>

c_mlt_convert(t, mlon) ==
    IF IsNaN(mlon) THEN NaN ELSE ((mlon \div 15) + (t.sec \div 36)) % 2400

(***************************************************************************)
(* The method argument: a string, an integer bit code, or anything else.   *)
(***************************************************************************)
MStr(s) == [kind |-> "str", s |-> s, v |-> 0]
MInt(v) == [kind |-> "int", s |-> <<>>, v |-> v]
MOther == [kind |-> "other", s |-> <<>>, v |-> 0]

\* try: convert_str_to_bit(method_code.upper()) except AttributeError: as is
method_bit_code(method_code) ==
    IF method_code.kind = "str"
    THEN convert_str_to_bit(str_upper(method_code.s))
    ELSE method_code.v

\* isinstance(bit_code, int)
method_is_int(method_code) == method_code.kind \in {"str", "int"}

(***************************************************************************)
(* Latitude and longitude normalisation (scalar).                          *)
(***************************************************************************)
lat_unrealistic_loose(in_lat) == Gt(Abs(in_lat), 9020)

\* abs(in_lat) > 90.1: raise ValueError('unrealistic latitude')
lat_unrealistic(in_lat) == Gt(Abs(in_lat), 9010)

\* np.sign(in_lat) * 90.0 when abs(in_lat) > 90.0
clamp_lat(in_lat) ==
    IF Gt(Abs(in_lat), 9000)
    THEN (IF in_lat < 0 THEN -9000 ELSE 9000)
    ELSE in_lat

\* ((in_lon + 180.0) % 360.0) - 180.0
wrap_lon(in_lon) ==
    IF IsNaN(in_lon) THEN NaN ELSE ((in_lon + 18000) % 36000) - 18000

(***************************************************************************)
(* convert_latlon.  The result is the outcome seen by the caller, the      *)
(* engine primitives invoked in order, and the engine's epoch register     *)
(* afterwards.                                                             *)
(***************************************************************************)
Result(o, l, e, p) == [out |-> o, log |-> l, epoch |-> e, passed |-> p]

set_datetime_skipped(t, eng, ep) ==
    [ok |-> TRUE, exc |-> "", log |-> <<>>, epoch |-> ep]

\* c_aacgmv2.set_datetime(...) inside try/except TypeError/RuntimeError
set_datetime(t, eng, ep) ==
    IF eng.setdt = "ok"
    THEN [ok |-> TRUE, exc |-> "", log |-> <<LogSetDatetime(t, TRUE)>>, epoch |-> t]
    ELSE [ok |-> FALSE, exc |-> eng.setdt,
          log |-> <<LogSetDatetime(t, FALSE)>>, epoch |-> ep]

\* lines 242-254: the conversion, any exception of the primitive swallowed
convert_point(lat, lon, height, bit_code, eng, sd) ==
    IF ~sd.ok
    THEN Result(Raise(sd.exc, "unable to set time"), sd.log, sd.epoch, <<>>)
    ELSE IF eng.conv[1] = "fail"
    THEN Result(Return(<<NaN, NaN, NaN>>),
                Append(sd.log, LogConvert(lat, lon, height, bit_code, sd.epoch, FALSE)),
                sd.epoch, <<>>)
    ELSE Result(Return(c_convert(lat, lon, height, bit_code, eng.conv[1])),
                Append(sd.log, LogConvert(lat, lon, height, bit_code, sd.epoch, TRUE)),
                sd.epoch, <<>>)

\* lines 217-240: height test, latitude test, normalisation, set_datetime
convert_checked(in_lat, in_lon, height, t, bit_code, eng, ep) ==
    IF ~test_height(height, bit_code)
    THEN Result(Return(<<NaN, NaN, NaN>>), <<>>, ep, <<>>)
    ELSE IF lat_unrealistic(in_lat)
    THEN Result(Raise("ValueError", "unrealistic latitude"), <<>>, ep, <<>>)
    ELSE convert_point(clamp_lat(in_lat), wrap_lon(in_lon), height, bit_code, eng,
                       set_datetime(t, eng, ep))

convert_latlon(in_lat, in_lon, height, dtime, method_code, eng, ep) ==
    IF ~test_time_ok(dtime)
    THEN Result(Raise("ValueError", "time variable (dtime) must be a datetime object"),
                <<>>, ep, <<>>)
    ELSE IF ~method_is_int(method_code)
    THEN Result(Raise("ValueError", "unknown method code"), <<>>, ep, <<>>)
    ELSE convert_checked(in_lat, in_lon, height, test_time(dtime),
                         method_bit_code(method_code), eng, ep)

(***************************************************************************)
(* numpy arrays.                                                           *)
(***************************************************************************)
RECURSIVE Prod(_)
Prod(shape) == IF shape = <<>> THEN 1 ELSE Head(shape) * Prod(Tail(shape))

Arr(shape, data) == [shape |-> shape, data |-> data]

\* np.full(shape=shape, fill_value=v)
np_full(shape, v) == Arr(shape, [i \in 1..Prod(shape) |-> v])

MaxOf(S) == CHOOSE x \in S : \A y \in S : y <= x

\* np.nanmax(a): the largest element that is not NaN; NaN when all are
np_nanmax(a) ==
    LET nums == Range(a.data) \ {NaN}
    IN IF nums = {} THEN NaN ELSE MaxOf(nums)

\* np.abs(a).max(): NaN as soon as one element is NaN
np_abs_max(a) ==
    IF NaN \in Range(a.data) THEN NaN
    ELSE MaxOf({Abs(a.data[i]) : i \in 1..Len(a.data)})

\* np.clip(a, -90.0, 90.0)
np_clip_lat(a) ==
    Arr(a.shape, [i \in 1..Len(a.data) |->
                    IF Gt(a.data[i], 9000) THEN 9000
                    ELSE IF Lt(a.data[i], -9000) THEN -9000
                    ELSE a.data[i]])

np_wrap_lon(a) == Arr(a.shape, [i \in 1..Len(a.data) |-> wrap_lon(a.data[i])])

(***************************************************************************)
(* convert_latlon_arr, lines 305-324: inputs of rank 0 are filled to the   *)
(* shape of the input of highest rank (the first one on a tie).            *)
(***************************************************************************)
MinRank(r) == CHOOSE x \in Range(r) : \A y \in Range(r) : x <= y

MaxRank(r) == CHOOSE x \in Range(r) : \A y \in Range(r) : y <= x

\* test_array.argmax(): the first index of the largest rank
ArgMax(r) == CHOOSE i \in 1..3 : r[i] = MaxRank(r) /\ \A j \in 1..(i - 1) : r[j] < r[i]

fill_scalars(in_lat, in_lon, height, max_shape) ==
    <<IF in_lat.shape = <<>> THEN np_full(max_shape, in_lat.data[1]) ELSE in_lat,
      IF in_lon.shape = <<>> THEN np_full(max_shape, in_lon.data[1]) ELSE in_lon,
      IF height.shape = <<>> THEN np_full(max_shape, height.data[1]) ELSE height>>

broadcast_ranked(in_lat, in_lon, height, test_array) ==
    IF MinRank(test_array) # 0 THEN <<in_lat, in_lon, height>>
    ELSE IF MaxRank(test_array) = 0
    THEN <<Arr(<<1>>, in_lat.data), Arr(<<1>>, in_lon.data), Arr(<<1>>, height.data)>>
    ELSE fill_scalars(in_lat, in_lon, height,
                      <<in_lat.shape, in_lon.shape, height.shape>>[ArgMax(test_array)])

broadcast_scalars(in_lat, in_lon, height) ==
    broadcast_ranked(in_lat, in_lon, height,
                     <<Len(in_lat.shape), Len(in_lon.shape), Len(height.shape)>>)

(***************************************************************************)
(* convert_latlon_arr, lines 326-339: the shape test.  array_key holds the *)
(* inputs whose shape is not (1,).  With three of them the call raises a   *)
(* ValueError that names all three; with two, evaluating the condition     *)
(* reads the undefined name array_dict, which raises NameError; with one,  *)
(* nothing is raised.  np.unique of the shapes (ulen) is never used.       *)
(***************************************************************************)
ShapesEqual(lat, lon, h) == lat.shape = lon.shape /\ lat.shape = h.shape

array_key(lat, lon, h) ==
    SelectSeq(<<"lat", "lon", "height">>,
              LAMBDA kk : (IF kk = "lat" THEN lat.shape
                           ELSE IF kk = "lon" THEN lon.shape ELSE h.shape) # <<1>>)

check_shapes_never(lat, lon, h) == NoRet

check_shapes(lat, lon, h) ==
    IF ShapesEqual(lat, lon, h) THEN NoRet
    ELSE IF Len(array_key(lat, lon, h)) = 3
    THEN Raise("ValueError", "lat, lon, and height arrays are mismatched")
    ELSE IF Len(array_key(lat, lon, h)) = 2
    THEN Raise("NameError", "name 'array_dict' is not defined")
    ELSE NoRet

(***************************************************************************)
(* np.vectorize(c_aacgmv2.convert)(in_lat, in_lon, height, bit_code).      *)
(* The arguments are broadcast against each other; past the shape test     *)
(* every argument has the common shape or the shape (1,).  vectorize calls *)
(* the primitive once on the first point to find the output types and then *)
(* on each point in order; the first exception ends the whole call.        *)
(***************************************************************************)
broadcast_shape(lat, lon, h) ==
    IF lat.shape # <<1>> THEN lat.shape
    ELSE IF lon.shape # <<1>> THEN lon.shape
    ELSE h.shape

Elem(a, bshape, i) == IF a.shape = bshape THEN a.data[i] ELSE a.data[1]

BatchSize(lat, lon, h) == Prod(broadcast_shape(lat, lon, h))

\* the i-th point of the broadcast arguments
PointAt(lat, lon, h, bshape, i) ==
    <<Elem(lat, bshape, i), Elem(lon, bshape, i), Elem(h, bshape, i)>>

ConvertEntry(pt, bit_code, ep, how) ==
    LogConvert(pt[1], pt[2], pt[3], bit_code, ep, how # "fail")

ConvertOut(pt, bit_code, how) ==
    IF how = "fail" THEN <<NaN, NaN, NaN>>
    ELSE c_convert(pt[1], pt[2], pt[3], bit_code, how)

\* the three output arrays made of the per-point results
OutArrays(bshape, res) ==
    <<Arr(bshape, [i \in 1..Len(res) |-> res[i][1]]),
      Arr(bshape, [i \in 1..Len(res) |-> res[i][2]]),
      Arr(bshape, [i \in 1..Len(res) |-> res[i][3]])>>

\* the last point the primitive is called on: the first one it fails on
LastCalled(eng, n) ==
    IF \A i \in 1..n : eng.conv[i] # "fail" THEN n
    ELSE CHOOSE i \in 1..n :
           eng.conv[i] = "fail" /\ \A j \in 1..(i - 1) : eng.conv[j] # "fail"

vectorised_isolating(pts, bshape, bit_code, eng, ep) ==
    [ok |-> TRUE,
     log |-> [i \in 1..Len(pts) |-> ConvertEntry(pts[i], bit_code, ep, eng.conv[i])],
     outs |-> OutArrays(bshape, [i \in 1..Len(pts) |->
                                   ConvertOut(pts[i], bit_code, eng.conv[i])])]

vectorised(pts, bshape, bit_code, eng, ep) ==
    IF eng.conv[1] = "fail"
    THEN [ok |-> FALSE, outs |-> <<>>,
          log |-> <<ConvertEntry(pts[1], bit_code, ep, "fail")>>]
    ELSE [ok |-> \A i \in 1..Len(pts) : eng.conv[i] # "fail",
          log |-> <<ConvertEntry(pts[1], bit_code, ep, eng.conv[1])>>
                  \o [i \in 1..LastCalled(eng, Len(pts)) |->
                        ConvertEntry(pts[i], bit_code, ep, eng.conv[i])],
          outs |-> IF \E i \in 1..Len(pts) : eng.conv[i] = "fail" THEN <<>>
                   ELSE OutArrays(bshape, [i \in 1..Len(pts) |->
                                             ConvertOut(pts[i], bit_code, eng.conv[i])])]

convert_vectorised(lat, lon, h, bit_code, eng, ep) ==
    vectorised([i \in 1..BatchSize(lat, lon, h) |->
                  PointAt(lat, lon, h, broadcast_shape(lat, lon, h), i)],
               broadcast_shape(lat, lon, h), bit_code, eng, ep)

(***************************************************************************)
(* convert_latlon_arr                                                      *)
(***************************************************************************)
\* lines 344-347: the outputs as initialised
nan_out(in_lat, in_lon, height) ==
    <<np_full(in_lat.shape, NaN), np_full(in_lon.shape, NaN),
      np_full(height.shape, NaN)>>

\* lines 385-397: a failure of the vectorised call leaves the outputs as initialised
arr_finish(lat, lon, height, sd, cv) ==
    Result(Return(IF cv.ok THEN cv.outs ELSE nan_out(lat, lon, height)),
           sd.log \o cv.log, sd.epoch, <<lat, lon, height>>)

\* lines 372-388
arr_convert(lat, lon, height, bit_code, eng, sd) ==
    IF ~sd.ok
    THEN Result(Raise(sd.exc, "unable to set time"), sd.log, sd.epoch,
                <<lat, lon, height>>)
    ELSE arr_finish(lat, lon, height, sd,
                    convert_vectorised(lat, lon, height, bit_code, eng, sd.epoch))

batch_height_first(height) == height.data[1]

\* np.nanmax(height), the height the policy is decided on
batch_height(height) == np_nanmax(height)

\* np.abs(in_lat).max() > 90.0 and np.abs(in_lat).max() > 90.1
arr_lat_unrealistic(in_lat) ==
    Gt(np_abs_max(in_lat), 9000) /\ Gt(np_abs_max(in_lat), 9010)

\* lines 358-369
arr_checked(in_lat, in_lon, height, t, bit_code, eng, ep) ==
    IF ~test_height(batch_height(height), bit_code)
    THEN Result(Return(nan_out(in_lat, in_lon, height)), <<>>, ep,
                <<in_lat, in_lon, height>>)
    ELSE IF arr_lat_unrealistic(in_lat)
    THEN Result(Raise("ValueError", "unrealistic latitude"), <<>>, ep,
                <<in_lat, in_lon, height>>)
    ELSE arr_convert(IF Gt(np_abs_max(in_lat), 9000) THEN np_clip_lat(in_lat)
                     ELSE in_lat,
                     np_wrap_lon(in_lon), height, bit_code, eng,
                     set_datetime(t, eng, ep))

\* lines 326-356
arr_shaped(b, dtime, method_code, eng, ep) ==
    IF check_shapes(b[1], b[2], b[3]).kind = "raise"
    THEN Result(check_shapes(b[1], b[2], b[3]), <<>>, ep, <<>>)
    ELSE IF ~test_time_ok(dtime)
    THEN Result(Raise("ValueError", "time variable (dtime) must be a datetime object"),
                <<>>, ep, <<>>)
    ELSE IF ~method_is_int(method_code)
    THEN Result(Raise("ValueError", "unknown method code"), <<>>, ep, <<>>)
    ELSE arr_checked(b[1], b[2], b[3], test_time(dtime),
                     method_bit_code(method_code), eng, ep)

convert_latlon_arr(a_lat, a_lon, a_height, dtime, method_code, eng, ep) ==
    arr_shaped(broadcast_scalars(a_lat, a_lon, a_height), dtime, method_code, eng, ep)

(***************************************************************************)
(* convert_mlt with m2a=False, as the two get_aacgm_coord functions call   *)
(* it.  The engine's MLT routine sets the date and time itself.  A scalar  *)
(* argument gives a 0-d result that is turned back into a float.           *)
(***************************************************************************)
mlt_vectorised(shape, data, is_scalar, t) ==
    [out |-> IF is_scalar THEN c_mlt_convert(t, data[1])
             ELSE Arr(shape, [i \in 1..Len(data) |-> c_mlt_convert(t, data[i])]),
     log |-> <<LogMlt(t, data[1])>> \o [i \in 1..Len(data) |-> LogMlt(t, data[i])],
     epoch |-> t]

convert_mlt(arr, is_scalar, dtime) ==
    IF is_scalar THEN mlt_vectorised(<<>>, <<arr>>, TRUE, test_time(dtime))
    ELSE mlt_vectorised(arr.shape, arr.data, FALSE, test_time(dtime))

\* "G2A|{:s}".format(method)
format_method(method) == MStr(<<"G", "2", "A", "|">> \o method.s)

format_error(method) ==
    IF method.kind = "int"
    THEN Raise("ValueError", "Unknown format code 's' for object of type 'int'")
    ELSE Raise("TypeError", "unsupported format string")

(***************************************************************************)
(* get_aacgm_coord                                                         *)
(***************************************************************************)
\* not np.isnan(mlon)
mlt_needed(mlon) == ~IsNaN(mlon)

with_mlt(r, m) ==
    Result(Return(<<r.out.val[1], r.out.val[2], m.out>>), r.log \o m.log, m.epoch,
           r.passed)

\* lines 437-440
coord_mlt(r, dtime) ==
    IF r.out.kind = "raise" THEN r
    ELSE IF ~mlt_needed(r.out.val[2])
    THEN Result(Return(<<r.out.val[1], r.out.val[2], NaN>>), r.log, r.epoch, r.passed)
    ELSE with_mlt(r, convert_mlt(r.out.val[2], TRUE, dtime))

get_aacgm_coord(glat, glon, height, dtime, method, eng, ep) ==
    IF method.kind # "str" THEN Result(format_error(method), <<>>, ep, <<>>)
    ELSE coord_mlt(convert_latlon(glat, glon, height, dtime, format_method(method),
                                  eng, ep),
                   dtime)

(***************************************************************************)
(* get_aacgm_coord_arr                                                     *)
(***************************************************************************)
mlt_arr_needed_always(mlon) == TRUE

\* not np.all(np.isnan(mlon))
mlt_arr_needed(mlon) == \E i \in 1..Len(mlon.data) : ~IsNaN(mlon.data[i])

\* lines 482-488
coord_mlt_arr(r, dtime) ==
    IF r.out.kind = "raise" THEN r
    ELSE IF ~mlt_arr_needed(r.out.val[2])
    THEN Result(Return(<<r.out.val[1], r.out.val[2],
                         np_full(r.out.val[1].shape, NaN)>>),
                r.log, r.epoch, r.passed)
    ELSE with_mlt(r, convert_mlt(r.out.val[2], FALSE, dtime))

get_aacgm_coord_arr(glat, glon, height, dtime, method, eng, ep) ==
    IF method.kind # "str" THEN Result(format_error(method), <<>>, ep, <<>>)
    ELSE coord_mlt_arr(convert_latlon_arr(glat, glon, height, dtime,
                                          format_method(method), eng, ep),
                       dtime)

(***************************************************************************)
(* Inputs.                                                                 *)
(***************************************************************************)
Times == {DateTime(1, 3600), Date(2), NotATime}

TxtG2A == <<"G", "2", "A">>
TxtA2G == <<"A", "2", "G">>
Txta2g == <<"a", "2", "g">>
TxtTRACE == <<"T", "R", "A", "C", "E">>
TxtTrace == <<" ", "T", "r", "a", "c", "e", " ">>
Txtallowtrace == <<"a", "l", "l", "o", "w", "t", "r", "a", "c", "e">>
TxtBADIDEA == <<"B", "A", "D", "I", "D", "E", "A">>
TxtBadIdea == <<"b", "a", "d", " ", "i", "d", "e", "a">>
Txtgeocentric == <<"g", "e", "o", "c", "e", "n", "t", "r", "i", "c">>
TxtBOGUS == <<"B", "O", "G", "U", "S">>
TxtEmpty == <<>>

Spellings ==
    {TxtG2A, TxtA2G, Txta2g, TxtTRACE, TxtTrace, Txtallowtrace, TxtBADIDEA,
     TxtBadIdea, Txtgeocentric, TxtBOGUS, TxtEmpty}

\* the pipe-delimited texts of at most n tokens
RECURSIVE MethodTexts(_)
MethodTexts(n) ==
    IF n <= 1 THEN Spellings
    ELSE MethodTexts(n - 1)
         \cup {a \o <<"|">> \o b : a \in MethodTexts(n - 1), b \in Spellings}

\* the method arguments of the conversion calls
MethodArgs ==
    {MStr(TxtG2A), MStr(TxtA2G), MStr(TxtTrace),
     MStr(TxtBadIdea \o <<"|">> \o Txtgeocentric), MInt(ALLOWTRACE), MOther}

ScalarLats == {4500, 9005, -9010, 9011, -9020, NaN}
ScalarLons == {0, -18000, 19000}
ScalarHeights == {-10, 300, 2001, 6378, 6379, NaN}

\* the points of the batches: <<latitude, longitude, height>>
Points ==
    {<<4500, 19000, 300>>, <<9005, -18000, 2001>>, <<9011, 0, 300>>,
     <<NaN, 0, 6379>>, <<-9005, 54000, NaN>>, <<-4500, -19000, -10>>}

Shapes == {<<>>, <<1, 1>>} \cup {<<n>> : n \in 1..MaxLen}

\* an array of a shape: its first element and the value of all the others
MkArr(shape, first, rest) ==
    Arr(shape, [i \in 1..Prod(shape) |-> IF i = 1 THEN first ELSE rest])

AllOk(n) == [i \in 1..n |-> "ok"]

ConvPatterns(n) ==
    {AllOk(n), [i \in 1..n |-> "nan"], [i \in 1..n |-> IF i = 1 THEN "nan" ELSE "ok"]}
    \cup {[i \in 1..n |-> IF i = k THEN "fail" ELSE "ok"] : k \in 1..n}

EngineBehaviours(n) ==
    {Engine("ok", c) : c \in ConvPatterns(n)}
    \cup {Engine(e, AllOk(n)) : e \in {"TypeError", "RuntimeError"}}

NoCall == [op |-> "none", args |-> <<>>, eng |-> Engine("ok", <<>>)]

Call(op, args, eng) == [op |-> op, args |-> args, eng |-> eng]

(***************************************************************************)
(* The state machine.  The wrapper is synchronous and single-threaded: a   *)
(* call runs to completion (one action), the caller takes the outcome      *)
(* (Return), and only the engine's epoch register outlives a call.         *)
(***************************************************************************)
Init ==
    /\ pc = "idle"
    /\ call = NoCall
    /\ ret = NoRet
    /\ log = <<>>
    /\ passed = <<>>
    /\ epoch = NoEpoch

Finish(c, r) ==
    /\ pc' = "done"
    /\ call' = c
    /\ ret' = r.out
    /\ log' = r.log
    /\ passed' = r.passed
    /\ epoch' = r.epoch

ConvertStrToBit ==
    /\ pc = "idle"
    /\ \E text \in MethodTexts(MaxTokens) :
         Finish(Call("convert_str_to_bit", <<text>>, Engine("ok", <<>>)),
                Result(Return(convert_str_to_bit(text)), <<>>, epoch, <<>>))

\* a direct call of test_height: the boolean it returns, the advisory it logs
TestHeights == {-10, 0, 300, 2000, 2001, 6378, 6379, 100000, NaN}

BitCodes == 0..31

TestHeight ==
    /\ pc = "idle"
    /\ \E height \in TestHeights, bit_code \in BitCodes :
         Finish(Call("test_height", <<height, bit_code>>, Engine("ok", <<>>)),
                Result(Return(<<test_height(height, bit_code)>>),
                       IF test_height_warns(height) THEN <<LogWarning(height)>>
                       ELSE <<>>,
                       epoch, <<>>))

\* the engine's behaviour is chosen only in a call that reaches the engine
ScalarCall(op, lat, lon, height, dtime, method, eng) ==
    IF op = "convert_latlon"
    THEN convert_latlon(lat, lon, height, dtime, method, eng, epoch)
    ELSE get_aacgm_coord(lat, lon, height, dtime, method, eng, epoch)

ScalarCalls(op) ==
    \E in_lat \in ScalarLats, in_lon \in ScalarLons, height \in ScalarHeights,
       dtime \in Times, method \in MethodArgs :
      \E dry \in {ScalarCall(op, in_lat, in_lon, height, dtime, method,
                             Engine("ok", AllOk(1)))} :
        \E eng \in IF dry.log = <<>> THEN {Engine("ok", AllOk(1))}
                   ELSE EngineBehaviours(1) :
          \E r \in {IF dry.log = <<>> THEN dry
                    ELSE ScalarCall(op, in_lat, in_lon, height, dtime, method, eng)} :
            Finish(Call(op, <<in_lat, in_lon, height, dtime, method>>, eng), r)

ConvertLatLon == pc = "idle" /\ ScalarCalls("convert_latlon")

GetAacgmCoord == pc = "idle" /\ ScalarCalls("get_aacgm_coord")

ArrayCall(op, lat, lon, height, dtime, method, eng) ==
    IF op = "convert_latlon_arr"
    THEN convert_latlon_arr(lat, lon, height, dtime, method, eng, epoch)
    ELSE get_aacgm_coord_arr(lat, lon, height, dtime, method, eng, epoch)

\* a call rejected for its shapes, time or method never looks at the values
RejectedEarly(op, sl, sn, sh, dtime, method) ==
    ArrayCall(op, np_full(sl, 0), np_full(sn, 0), np_full(sh, 0), dtime, method,
              Engine("ok", AllOk(MaxLen + 1))).out.kind = "raise"

ArrayCalls(op) ==
    \E sl \in Shapes, sn \in Shapes, sh \in Shapes, dtime \in Times,
       method \in MethodArgs :
      \E p \in Points,
         q \in IF RejectedEarly(op, sl, sn, sh, dtime, method)
               THEN {<<4500, 0, 300>>} ELSE Points :
        \E in_lat \in {MkArr(sl, p[1], q[1])}, in_lon \in {MkArr(sn, p[2], q[2])},
           height \in {MkArr(sh, p[3], q[3])} :
            \E dry \in {ArrayCall(op, in_lat, in_lon, height, dtime, method,
                                  Engine("ok", AllOk(MaxLen)))} :
              \E eng \in IF dry.log = <<>> THEN {Engine("ok", AllOk(1))}
                         ELSE EngineBehaviours(BatchSize(dry.passed[1], dry.passed[2],
                                                         dry.passed[3])) :
                \E r \in {IF dry.log = <<>> THEN dry
                          ELSE ArrayCall(op, in_lat, in_lon, height, dtime, method,
                                         eng)} :
                  Finish(Call(op, <<in_lat, in_lon, height, dtime, method>>, eng), r)

ConvertLatLonArr == pc = "idle" /\ ArrayCalls("convert_latlon_arr")

GetAacgmCoordArr == pc = "idle" /\ ArrayCalls("get_aacgm_coord_arr")

\* the caller takes the outcome; the call's transient data is discarded
TakeResult ==
    /\ pc = "done"
    /\ pc' = "idle"
    /\ call' = NoCall
    /\ ret' = NoRet
    /\ log' = <<>>
    /\ passed' = <<>>
    /\ UNCHANGED epoch

(***************************************************************************)
(* Specifications: the two conversion functions (Spec), the two            *)
(* get_aacgm_coord functions (SpecCoord), the method decoder (SpecDecode). *)
(***************************************************************************)
Next ==
    \/ ConvertLatLon
    \/ ConvertLatLonArr
    \/ TakeResult

Spec == Init /\ [][Next]_vars

NextCoord ==
    \/ GetAacgmCoord
    \/ GetAacgmCoordArr
    \/ TakeResult

SpecCoord == Init /\ [][NextCoord]_vars

NextDecode ==
    \/ ConvertStrToBit
    \/ TakeResult

SpecDecode == Init /\ [][NextDecode]_vars

NextHeight ==
    \/ TestHeight
    \/ TakeResult

SpecHeight == Init /\ [][NextHeight]_vars

(***************************************************************************)
(* Vocabulary of the properties.                                           *)
(***************************************************************************)
Done(op) == pc = "done" /\ call.op = op

HasFlag(code, flag) == (code \div flag) % 2 = 1

\* the height policy as the specification words it
HeightBlocked(h, code) ==
    \/ /\ Gt(h, 2000)
       /\ ~HasFlag(code, TRACE) /\ ~HasFlag(code, ALLOWTRACE) /\ ~HasFlag(code, BADIDEA)
    \/ Gt(h, high_alt_trace) /\ ~HasFlag(code, BADIDEA)

ValidTimeAndMethod == test_time_ok(call.args[4]) /\ method_is_int(call.args[5])

CallCode == method_bit_code(call.args[5])

AllMissing(a) == \A i \in 1..Len(a.data) : IsNaN(a.data[i])

ConvertCalls == {i \in 1..Len(log) : log[i].prim = "convert"}

SetCalls == {i \in 1..Len(log) : log[i].prim = "set_datetime"}

MltCalls == {i \in 1..Len(log) : log[i].prim = "mlt_convert"}

\* the three arrays of a batch call after the scalars are filled
Batch == broadcast_scalars(call.args[1], call.args[2], call.args[3])

NonSingletons(b) == {i \in 1..3 : b[i].shape # <<1>>}

SameShapes(b) == b[1].shape = b[2].shape /\ b[1].shape = b[3].shape

(***************************************************************************)
(* C1.  A convert_latlon call with a valid time and method whose height is *)
(* above 2000 km with none of TRACE, ALLOWTRACE, BADIDEA set, or above the *)
(* trace ceiling without BADIDEA, returns (NaN, NaN, NaN), raises nothing  *)
(* and invokes no engine primitive.                                        *)
(***************************************************************************)
C1_BlockedHeightReturnsMissing ==
    (Done("convert_latlon") /\ ValidTimeAndMethod
     /\ HeightBlocked(call.args[3], CallCode))
    => (ret = Return(<<NaN, NaN, NaN>>) /\ log = <<>>)

C1_Witness ==
    /\ Done("convert_latlon") /\ ValidTimeAndMethod
    /\ call.args[3] = 2001 /\ CallCode = 0
    /\ ret.kind = "return"

(***************************************************************************)
(* C2.  As claimed: when the primitive fails for one element of a batch,   *)
(* the call raises nothing and every element for which the primitive       *)
(* succeeds carries the primitive's result at its index.                   *)
(***************************************************************************)
PrimitiveResultAt(i) ==
    ConvertOut(PointAt(passed[1], passed[2], passed[3],
                       broadcast_shape(passed[1], passed[2], passed[3]), i),
               CallCode, call.eng.conv[i])

CarriesResultAt(i) ==
    /\ i \in 1..Len(ret.val[1].data)
    /\ <<ret.val[1].data[i], ret.val[2].data[i], ret.val[3].data[i]>>
         = PrimitiveResultAt(i)

PrimitiveFailed == \E i \in ConvertCalls : ~log[i].ok

IsConversion == pc = "done" /\ call.op \in {"convert_latlon", "convert_latlon_arr"}

InputLats ==
    IF call.op = "convert_latlon" THEN {call.args[1]} ELSE Range(call.args[1].data)

SomeLatBeyondLimit == \E x \in InputLats : Gt(Abs(x), 9010)

CallHeight ==
    IF call.op = "convert_latlon" THEN call.args[3] ELSE np_nanmax(Batch[3])

ShapeTestPassed ==
    call.op = "convert_latlon" \/ check_shapes(Batch[1], Batch[2], Batch[3]) = NoRet

C3_UnrealisticLatitudeRaises ==
    (IsConversion /\ ValidTimeAndMethod /\ SomeLatBeyondLimit
     /\ ShapeTestPassed /\ NaN \notin InputLats
     /\ ~HeightBlocked(CallHeight, CallCode))
    => (ret = Raise("ValueError", "unrealistic latitude") /\ log = <<>>)

C3_BlockedHeightHidesLatitude ==
    (IsConversion /\ ValidTimeAndMethod /\ SomeLatBeyondLimit
     /\ ShapeTestPassed /\ HeightBlocked(CallHeight, CallCode))
    => ret.kind = "return"

MismatchMessages ==
    {"lat, lon, and height arrays are mismatched",
     "lat and lon arrays are mismatched", "lat and height arrays are mismatched",
     "lon and height arrays are mismatched"}

TwoNameMessages == MismatchMessages \ {"lat, lon, and height arrays are mismatched"}

DimensionMismatch ==
    ret.kind = "raise" /\ ret.err = "ValueError" /\ ret.msg \in MismatchMessages

C4_Original ==
    Done("convert_latlon_arr")
    => \/ DimensionMismatch
       \/ /\ SameShapes(Batch)
          /\ passed # <<>> => SameShapes(passed)
          /\ ret.kind = "return" => SameShapes(ret.val)

(***************************************************************************)
(* C4, amended.  After the scalars are filled, a call whose three shapes   *)
(* are not identical fails with the ValueError naming all three inputs     *)
(* when all three shapes differ from (1,); it fails too, with a NameError, *)
(* when exactly two differ from (1,); and it proceeds when at most one     *)
(* does.  In a call that proceeds every array validated and passed to the  *)
(* engine has the one common shape or the shape (1,); the arrays returned  *)
(* by a conversion that succeeded on every point all have the common       *)
(* shape; the all-missing arrays returned otherwise keep the input shapes. *)
(***************************************************************************)
CommonShape(b) == broadcast_shape(b[1], b[2], b[3])

C4_ShapesCommonOrSingleton ==
    Done("convert_latlon_arr")
    => /\ (~SameShapes(Batch) /\ Cardinality(NonSingletons(Batch)) = 3)
          => ret = Raise("ValueError", "lat, lon, and height arrays are mismatched")
       /\ (~SameShapes(Batch) /\ Cardinality(NonSingletons(Batch)) = 2)
          => (ret.kind = "raise" /\ ret.err = "NameError")
       /\ passed # <<>>
          => /\ \A i \in 1..3 : passed[i].shape \in {CommonShape(Batch), <<1>>}
             /\ \A i \in 1..3 : passed[i].shape = Batch[i].shape
       /\ (ret.kind = "return" /\ ConvertCalls # {} /\ ~PrimitiveFailed)
          => \A i \in 1..3 : ret.val[i].shape = CommonShape(Batch)
       /\ (ret.kind = "return" /\ (ConvertCalls = {} \/ PrimitiveFailed))
          => \A i \in 1..3 : ret.val[i].shape = Batch[i].shape

C4_Witness ==
    /\ Done("convert_latlon_arr")
    /\ call.args[1].shape = <<MaxLen>> /\ call.args[2].shape = <<1>>
    /\ call.args[3].shape = <<1>>
    /\ ret.kind = "return" /\ ConvertCalls # {} /\ ~PrimitiveFailed
    /\ ret.val[2].shape = <<MaxLen>>

(***************************************************************************)
(* C5.  As claimed: a partial mismatch (exactly two inputs disagree in     *)
(* shape: two equal shapes beside a different one, or two different shapes *)
(* beside a singleton) fails with a ValueError naming only the two         *)
(* offending inputs; a 3-way mismatch names all three.                     *)
(***************************************************************************)
DistinctShapes(b) == {b[1].shape, b[2].shape, b[3].shape}

PartialMismatch(b) ==
    \/ Cardinality(DistinctShapes(b)) = 2 /\ <<1>> \notin DistinctShapes(b)
    \/ Cardinality(DistinctShapes(b)) = 3 /\ <<1>> \in DistinctShapes(b)

ThreeWayMismatch(b) ==
    Cardinality(DistinctShapes(b)) = 3 /\ <<1>> \notin DistinctShapes(b)

C5_Original ==
    Done("convert_latlon_arr")
    => /\ PartialMismatch(Batch)
          => (ret.kind = "raise" /\ ret.err = "ValueError"
              /\ ret.msg \in TwoNameMessages)
       /\ ThreeWayMismatch(Batch)
          => ret = Raise("ValueError", "lat, lon, and height arrays are mismatched")

(***************************************************************************)
(* C6.  In get_aacgm_coord and get_aacgm_coord_arr, when every magnetic    *)
(* longitude the point conversion produced is missing, the MLT returned is *)
(* missing (in the array variant: all of it, in the shape of the latitude  *)
(* result) and the engine's MLT primitive is not invoked.                  *)
(***************************************************************************)
C6_MissingLongitudeSkipsMlt ==
    /\ (Done("get_aacgm_coord") /\ ret.kind = "return" /\ IsNaN(ret.val[2]))
       => (IsNaN(ret.val[3]) /\ MltCalls = {})
    /\ (Done("get_aacgm_coord_arr") /\ ret.kind = "return" /\ AllMissing(ret.val[2]))
       => /\ AllMissing(ret.val[3])
          /\ ret.val[3].shape = ret.val[1].shape
          /\ MltCalls = {}

C6_Witness ==
    /\ Done("get_aacgm_coord_arr") /\ ret.kind = "return"
    /\ \E i \in ConvertCalls : ~log[i].ok
    /\ Len(ret.val[2].data) >= 2
    /\ AllMissing(ret.val[2]) /\ AllMissing(ret.val[3])

(***************************************************************************)
(* C7.  As claimed: whatever method string the caller of get_aacgm_coord   *)
(* or get_aacgm_coord_arr supplies, the bit mask handed to the engine's    *)
(* convert primitive has direction G2A: the A2G flag is not set in it.     *)
(***************************************************************************)
C7_Original ==
    (pc = "done" /\ call.op \in {"get_aacgm_coord", "get_aacgm_coord_arr"})
    => \A i \in ConvertCalls : ~HasFlag(log[i].code, A2G)

(***************************************************************************)
(* C8.  As claimed: the mask convert_str_to_bit returns has exactly the    *)
(* flags of the recognised tokens that occur in the string, whatever their *)
(* order, case and spacing and however often a token occurs; a string with *)
(* no recognised token gives 0.                                            *)
(***************************************************************************)
\* the recognised tokens that occur in a text
TokensIn(text) ==
    {k \in convert_code_keys :
       \E i \in 1..Len(str_split(str_remove_spaces(str_upper(text)))) :
         str_split(str_remove_spaces(str_upper(text)))[i] = k}

\* the flags of a set of tokens are disjoint bits (G2A is no bit)
MaskOf(tokens) ==
    (IF KeyA2G \in tokens THEN A2G ELSE 0)
    + (IF KeyTRACE \in tokens THEN TRACE ELSE 0)
    + (IF KeyALLOWTRACE \in tokens THEN ALLOWTRACE ELSE 0)
    + (IF KeyBADIDEA \in tokens THEN BADIDEA ELSE 0)
    + (IF KeyGEOCENTRIC \in tokens THEN GEOCENTRIC ELSE 0)

C8_Original ==
    Done("convert_str_to_bit") => ret.val = MaskOf(TokensIn(call.args[1]))

(***************************************************************************)
(* C9.  In convert_latlon and convert_latlon_arr every invocation of the   *)
(* convert primitive comes after a successful set_datetime of the same     *)
(* call, made with the call's normalised time, and finds that time in the  *)
(* engine's epoch register; a call sets the epoch at most once; when       *)
(* set_datetime fails, the TypeError or RuntimeError reaches the caller    *)
(* and the convert primitive is not invoked.                               *)
(***************************************************************************)
C9_EpochSetBeforeConversion ==
    IsConversion
    => /\ \A i \in ConvertCalls :
            /\ i > 1
            /\ log[1] = LogSetDatetime(test_time(call.args[4]), TRUE)
            /\ log[i].epoch = test_time(call.args[4])
       /\ ConvertCalls # {} => epoch = test_time(call.args[4])
       /\ Cardinality(SetCalls) <= 1
       /\ (\E i \in SetCalls : ~log[i].ok)
          => /\ ret.kind = "raise" /\ ret.err \in {"TypeError", "RuntimeError"}
             /\ ret.err = call.eng.setdt
             /\ ConvertCalls = {}

C9_Witness ==
    /\ Done("convert_latlon_arr")
    /\ call.args[4] = Date(2)
    /\ Cardinality(ConvertCalls) >= 3
    /\ Cardinality(SetCalls) = 1
    /\ epoch = DateTime(2, 0)

(***************************************************************************)
(* C10.  convert_latlon_arr decides the height policy once, on the largest *)
(* height of the batch: if that height is blocked for the method code,     *)
(* every element of the three results is missing and no engine primitive   *)
(* is invoked, also for the elements whose own height is in range; if it   *)
(* is allowed, no element's height is blocked and the call goes on to the  *)
(* latitude test and the engine.                                           *)
(***************************************************************************)
BatchHeights == {x \in Range(Batch[3].data) : ~IsNaN(x)}

LargestHeight == IF BatchHeights = {} THEN NaN ELSE MaxOf(BatchHeights)

C10_BatchHeightDecision ==
    (Done("convert_latlon_arr") /\ ValidTimeAndMethod /\ ShapeTestPassed)
    => /\ HeightBlocked(LargestHeight, CallCode)
          => /\ ret.kind = "return"
             /\ \A i \in 1..3 : AllMissing(ret.val[i])
             /\ log = <<>>
       /\ ~HeightBlocked(LargestHeight, CallCode)
          => /\ \A x \in Range(Batch[3].data) : ~HeightBlocked(x, CallCode)
             /\ (log # <<>> \/ ret = Raise("ValueError", "unrealistic latitude"))

C10_Witness ==
    /\ Done("convert_latlon_arr") /\ ValidTimeAndMethod /\ ShapeTestPassed
    /\ Batch[3].data = <<300, 2001>>
    /\ CallCode = 0
    /\ ret.kind = "return" /\ AllMissing(ret.val[1]) /\ log = <<>>

(***************************************************************************)
(* C11.  Whenever convert_latlon or convert_latlon_arr invokes the         *)
(* engine's convert, every latitude passed to it lies in [-90, 90] and     *)
(* every longitude in [-180, 180), and normalising the passed values a     *)
(* second time changes nothing.                                            *)
(***************************************************************************)
LatInRange(x) == ~IsNaN(x) /\ -9000 <= x /\ x <= 9000

LonInRange(x) == ~IsNaN(x) /\ -18000 <= x /\ x < 18000

C11_Original ==
    IsConversion
    => \A i \in ConvertCalls :
         /\ LatInRange(log[i].pt[1])
         /\ LonInRange(log[i].pt[2])
         /\ clamp_lat(log[i].pt[1]) = log[i].pt[1]
         /\ wrap_lon(log[i].pt[2]) = log[i].pt[2]

(***************************************************************************)
(* C12.  test_height returns False exactly when the height is above 2000   *)
(* km with none of TRACE, ALLOWTRACE, BADIDEA set, or above the trace      *)
(* ceiling without BADIDEA: with BADIDEA it returns True for every height, *)
(* a negative height is never blocked and only logs the advisory, and      *)
(* TRACE or ALLOWTRACE do not lift the block above the trace ceiling.      *)
(***************************************************************************)
C12_HeightPolicy ==
    Done("test_height")
    => /\ ret.kind = "return"
       /\ ret.val[1] = ~HeightBlocked(call.args[1], call.args[2])
       /\ HasFlag(call.args[2], BADIDEA) => ret.val[1]
       /\ Lt(call.args[1], 0) => (ret.val[1] /\ log = <<LogWarning(call.args[1])>>)
       /\ ~Lt(call.args[1], 0) => log = <<>>
       /\ (Gt(call.args[1], high_alt_trace) /\ ~HasFlag(call.args[2], BADIDEA))
          => ~ret.val[1]

C12_Witness ==
    /\ Done("test_height")
    /\ call.args = <<6379, TRACE + ALLOWTRACE>>
    /\ ret.val = <<FALSE>>

====
